---- MODULE Spec2Model ----
(***************************************************************************)
(* Thai Typography Intelligence: the in-memory rule cache (loadRules.js),  *)
(* the rule engine (ruleEngine.js) and the server life cycle (server.js).  *)
(*                                                                         *)
(* A JavaScript string is a sequence of atoms.  The atom " " is one        *)
(* whitespace character, every other atom is a run of non-whitespace       *)
(* characters ("rule_id", "print", "1", "-", ".").  A JavaScript value is  *)
(* a record tagged "str", "num", "nan", "inf" or "undef"; a number is      *)
(* kept in tenths (fixed point with one fractional digit).                 *)
(***************************************************************************)
EXTENDS Integers, Sequences, FiniteSets, TLC

VARIABLES
    exported,     \* contents of the array object bound to module.exports.rules,
                  \* the array ruleEngine.js captured at require time
    aliased,      \* TRUE while the module variable `rules` is that same array
    detached,     \* contents of the array `rules` refers to once reassigned
    pc,           \* position of start(): init, loading, binding, listening, exited
    inflight,     \* ids of the scheduled loadRules() calls awaiting the source
    nextId,       \* number of scheduled loadRules() calls made so far
    lastInput,    \* argument of the most recent selectRule call
    lastResult,   \* its outcome
    lastReply,    \* most recent HTTP reply of POST /tti/decide-font
    lastLoad,     \* history: outcome of the most recent completed loadRules call
    initialLoad,  \* history: outcome of the load awaited by start()
    errorLog,     \* number of console.error reports of failed reloads
    reloadLog,    \* number of console.log reports of automatic reloads
    lastBody,     \* body of the most recent POST /tti/decide-font
    settled,      \* history: id of each settled scheduled load -> it resolved
    latestOk      \* history: id and rows of the resolved scheduled load started last

vars == <<exported, aliased, detached, pc, inflight, nextId, lastInput,
          lastResult, lastReply, lastLoad, initialLoad, errorLog, reloadLog,
          lastBody, settled, latestOk>>

----------------------------------------------------------------------------
(* Bounds of the model *)

MaxLoads == 2        \* scheduled ticks explored
MaxRules == 3        \* rules of a snapshot drawn for the rule engine
MaxRows == 2         \* data rows of a sheet drawn for the parser

(* Program constants *)

FallbackPriority == 100

----------------------------------------------------------------------------
(* JavaScript values *)

Tenths(k) == 10 * k

SV(s) == [t |-> "str", s |-> s, n |-> 0]
NV(n) == [t |-> "num", s |-> <<>>, n |-> n]
NaN == [t |-> "nan", s |-> <<>>, n |-> 0]
Infinity == [t |-> "inf", s |-> <<>>, n |-> 0]
Undefined == [t |-> "undef", s |-> <<>>, n |-> 0]

Str(w) == SV(<<w>>)

Digits == {"0", "1", "2", "3", "4", "5", "6", "7", "8", "9"}

DigitVal(c) ==
    CASE c = "0" -> 0 [] c = "1" -> 1 [] c = "2" -> 2 [] c = "3" -> 3
      [] c = "4" -> 4 [] c = "5" -> 5 [] c = "6" -> 6 [] c = "7" -> 7
      [] c = "8" -> 8 [] c = "9" -> 9

RECURSIVE IntOf(_)
IntOf(ds) ==
    IF ds = <<>> THEN 0
    ELSE 10 * IntOf(SubSeq(ds, 1, Len(ds) - 1)) + DigitVal(ds[Len(ds)])

AllDigits(ds) == \A i \in 1..Len(ds) : ds[i] \in Digits

(* String.prototype.trim *)
RECURSIVE TrimLeft(_)
TrimLeft(s) ==
    IF s # <<>> /\ s[1] = " " THEN TrimLeft(Tail(s)) ELSE s

RECURSIVE TrimRight(_)
TrimRight(s) ==
    IF s # <<>> /\ s[Len(s)] = " " THEN TrimRight(SubSeq(s, 1, Len(s) - 1)) ELSE s

Trim(s) == TrimRight(TrimLeft(s))

(* Number(string) for a trimmed string: "" is 0, a signed decimal literal  *)
(* with at most one fractional digit is its value, "Infinity" is infinite, *)
(* anything else is NaN.                                                   *)
StringToNumber(s) ==
    LET signed == s # <<>> /\ s[1] \in {"-", "+"}
        sign == IF s # <<>> /\ s[1] = "-" THEN -1 ELSE 1
        body == IF signed THEN Tail(s) ELSE s
        dots == {i \in 1..Len(body) : body[i] = "."}
    IN  IF s = <<>> THEN NV(0)
        ELSE IF body = <<"Infinity">> THEN Infinity
        ELSE IF body # <<>> /\ AllDigits(body) THEN NV(sign * Tenths(IntOf(body)))
        ELSE IF Cardinality(dots) = 1
             THEN LET d == CHOOSE i \in dots : TRUE
                      ip == SubSeq(body, 1, d - 1)
                      fp == SubSeq(body, d + 1, Len(body))
                  IN  IF AllDigits(ip) /\ AllDigits(fp) /\ Len(ip) + Len(fp) >= 1
                         /\ Len(fp) <= 1
                      THEN NV(sign * (Tenths(IntOf(ip)) + IntOf(fp)))
                      ELSE NaN
        ELSE NaN

(* Number(v) *)
ToNumber(v) ==
    CASE v.t = "num" -> v
      [] v.t = "nan" -> NaN
      [] v.t = "inf" -> Infinity
      [] v.t = "undef" -> NaN
      [] v.t = "str" -> StringToNumber(Trim(v.s))

(* Number.isFinite(v) *)
IsFinite(v) == v.t = "num"

(* truthiness of a value *)
Truthy(v) ==
    CASE v.t = "str" -> v.s # <<>>
      [] v.t = "num" -> v.n # 0
      [] v.t = "inf" -> TRUE
      [] OTHER -> FALSE

----------------------------------------------------------------------------
(* Rules: a rule object is a function from its keys (strings) to values.   *)

RuleIdKey == <<"rule_id">>
PriorityKey == <<"priority">>
UsageKey == <<"usage">>
AudienceKey == <<"audience">>
DensityKey == <<"density">>
ToneKey == <<"tone">>

(* property read rule[key]; undefined when the key is absent *)
Get(rule, key) == IF key \in DOMAIN rule THEN rule[key] ELSE Undefined

(* property write rule[key] = value *)
Put(rule, key, value) ==
    [k \in (DOMAIN rule) \cup {key} |-> IF k = key THEN value ELSE rule[k]]

EmptyObject == [k \in {} |-> Undefined]

----------------------------------------------------------------------------
(* loadRules.js: the parser *)

(* variant: the cell is stored as it came, not trimmed *)
MapColumnUntrimmed(rule, headers, row, index) ==
    LET key == Trim(headers[index])
        value == IF index <= Len(row) THEN row[index] ELSE <<>>
        numericPriority == StringToNumber(Trim(value))
    IN  IF key = <<>> THEN rule
        ELSE IF key = PriorityKey
             THEN Put(rule, key, IF IsFinite(numericPriority) THEN numericPriority ELSE NV(0))
             ELSE Put(rule, key, SV(value))

(* variant: the priority is stored without the Number.isFinite test *)
MapColumnUnchecked(rule, headers, row, index) ==
    LET key == Trim(headers[index])
        value == IF index <= Len(row) THEN Trim(row[index]) ELSE <<>>
    IN  IF key = <<>> THEN rule
        ELSE IF key = PriorityKey
             THEN Put(rule, key, StringToNumber(value))
             ELSE Put(rule, key, SV(value))

(* the body of headers.forEach in mapRowToRule, for column `index` *)
MapColumn(rule, headers, row, index) ==
    LET key == Trim(headers[index])
        value == IF index <= Len(row) THEN Trim(row[index]) ELSE <<>>
        numericPriority == StringToNumber(value)
    IN  IF key = <<>> THEN rule
        ELSE IF key = PriorityKey
             THEN Put(rule, key, IF IsFinite(numericPriority) THEN numericPriority ELSE NV(0))
             ELSE Put(rule, key, SV(value))

RECURSIVE MapColumns(_, _, _, _)
MapColumns(rule, headers, row, index) ==
    IF index > Len(headers) THEN rule
    ELSE MapColumns(MapColumn(rule, headers, row, index), headers, row, index + 1)

mapRowToRule(headers, row) == MapColumns(EmptyObject, headers, row, 1)

(* rows[0].map(trim), then the first header is forced to rule_id *)
NormalizeHeaders(headerRow) ==
    LET trimmed == [i \in 1..Len(headerRow) |-> Trim(headerRow[i])]
    IN  IF Len(trimmed) > 0 /\ trimmed[1] # RuleIdKey
        THEN [trimmed EXCEPT ![1] = RuleIdKey]
        ELSE trimmed

(* variant: the rule_id filter is missing *)
ParseRowsUnfiltered(rows) ==
    LET headers == NormalizeHeaders(rows[1])
        NonEmptyRow(row) == Len(row) > 0
        kept == SelectSeq(Tail(rows), NonEmptyRow)
    IN  [i \in 1..Len(kept) |-> mapRowToRule(headers, kept[i])]

(* loadedRules of loadRules, for a response with at least one row;        *)
(* Array.prototype.filter is SelectSeq: it keeps the order                 *)
ParseRows(rows) ==
    LET headers == NormalizeHeaders(rows[1])
        dataRows == Tail(rows)
        NonEmptyRow(row) == Len(row) > 0
        HasRuleId(rule) == Truthy(Get(rule, RuleIdKey))
        kept == SelectSeq(dataRows, NonEmptyRow)
        mapped == [i \in 1..Len(kept) |-> mapRowToRule(headers, kept[i])]
    IN  SelectSeq(mapped, HasRuleId)

(* The store: the exported array, and the array the module variable        *)
(* `rules` refers to.                                                      *)
Store(e, a, d) == [exported |-> e, aliased |-> a, detached |-> d]

(* variant: the array is emptied and only the first rule is pushed yet *)
StoreAfterLoadTorn(st, rows) ==
    IF Len(rows) = 0
    THEN Store(st.exported, FALSE, <<>>)
    ELSE LET loaded == ParseRows(rows)
             torn == IF loaded = <<>> THEN <<>> ELSE <<loaded[1]>>
         IN  IF st.aliased
             THEN Store(torn, TRUE, st.detached)
             ELSE Store(st.exported, FALSE, torn)

(* loadRules after the awaited response arrived with `rows` *)
StoreAfterLoad(st, rows) ==
    IF Len(rows) = 0
    THEN Store(st.exported, FALSE, <<>>)                \* rules = []
    ELSE IF st.aliased
         THEN Store(ParseRows(rows), TRUE, st.detached) \* rules.length = 0; push
         ELSE Store(st.exported, FALSE, ParseRows(rows))

(* variant: the array is emptied before the source is asked *)
StoreClearedBeforeFetch(st) ==
    IF st.aliased THEN Store(<<>>, TRUE, st.detached) ELSE Store(st.exported, FALSE, <<>>)

(* loadRules rejecting: every throw precedes the first write to `rules` *)
StoreAfterFailure(st) == st

(* the array loadRules returns *)
LoadedArray(st) == IF st.aliased THEN st.exported ELSE st.detached

----------------------------------------------------------------------------
(* ruleEngine.js *)

NoInput == [present |-> FALSE, usage |-> Undefined, audience |-> Undefined,
            density |-> Undefined, tone |-> Undefined]

Input(u, a, d, t) == [present |-> TRUE, usage |-> u, audience |-> a,
                      density |-> d, tone |-> t]

Threw == [kind |-> "throw", idx |-> 0]
Null == [kind |-> "null", idx |-> 0]
Selected(i) == [kind |-> "rule", idx |-> i]

(* indices of the rules of `rules`, among `idxs`, whose `key` equals v *)
FilterField(rules, idxs, key, v) ==
    LET Keep(i) == Get(rules[i], key) = v IN SelectSeq(idxs, Keep)

(* Number(rule.priority) || 0 *)
SortKey(rule) ==
    LET p == ToNumber(Get(rule, PriorityKey))
    IN  IF p.t = "num" THEN p.n ELSE 0

(* variant: any non-zero priority counts as the system rule *)
IsFallbackAnyPriority(rule) ==
    LET p == ToNumber(Get(rule, PriorityKey))
    IN  p.t = "num" /\ p.n # 0

(* Number(rule.priority) === 100 *)
IsFallback(rule) ==
    LET p == ToNumber(Get(rule, PriorityKey))
    IN  p.t = "num" /\ p.n = Tenths(FallbackPriority)

(* variant: ascending comparator *)
CompareAscending(a, b) == SortKey(a) - SortKey(b)

(* the comparator (a, b) => pb - pa *)
Compare(a, b) == SortKey(b) - SortKey(a)

(* Array.prototype.sort is stable: x goes before the first element that   *)
(* the comparator orders after it.                                         *)
RECURSIVE InsertSorted(_, _, _)
InsertSorted(rules, sorted, x) ==
    IF sorted = <<>> THEN <<x>>
    ELSE IF Compare(rules[sorted[1]], rules[x]) > 0
         THEN <<x>> \o sorted
         ELSE <<sorted[1]>> \o InsertSorted(rules, Tail(sorted), x)

RECURSIVE SortFrom(_, _, _)
SortFrom(rules, sorted, rest) ==
    IF rest = <<>> THEN sorted
    ELSE SortFrom(rules, InsertSorted(rules, sorted, rest[1]), Tail(rest))

SortByPriority(rules, idxs) == SortFrom(rules, <<>>, idxs)

(* the four filters of selectRule *)
Candidates(input, rules) ==
    LET all == [i \in 1..Len(rules) |-> i]
        c1 == FilterField(rules, all, UsageKey, input.usage)
        c2 == FilterField(rules, c1, AudienceKey, input.audience)
        c3 == FilterField(rules, c2, DensityKey, input.density)
    IN  FilterField(rules, c3, ToneKey, input.tone)

(* variant: the system rules in reverse order *)
FallbackCandidatesReversed(rules) ==
    LET all == [i \in 1..Len(rules) |-> Len(rules) + 1 - i]
        Keep(i) == IsFallback(rules[i])
    IN  SelectSeq(all, Keep)

FallbackCandidates(rules) ==
    LET all == [i \in 1..Len(rules) |-> i]
        Keep(i) == IsFallback(rules[i])
    IN  SelectSeq(all, Keep)

(* selectRule(input) over the array `rules`; a rule is named by its index *)
selectRule(input, rules) ==
    IF ~input.present THEN Threw
    ELSE LET candidates == Candidates(input, rules)
             fallbackCandidates == FallbackCandidates(rules)
         IN  IF candidates = <<>>
             THEN IF fallbackCandidates = <<>> THEN Null
                  ELSE Selected(fallbackCandidates[1])
             ELSE Selected(SortByPriority(rules, candidates)[1])

(* variant: the sort is applied to the rules array itself *)
RulesSortedInPlace(input, rules) ==
    IF ~input.present THEN rules
    ELSE LET order == SortByPriority(rules, [i \in 1..Len(rules) |-> i])
         IN  [i \in 1..Len(rules) |-> rules[order[i]]]

(* the rules array after selectRule(input): slice() and filter() give new *)
(* arrays, and sort() reorders the filtered copy only                      *)
RulesAfterSelect(input, rules) == rules

(* the rule object selectRule returns, null or the thrown error *)
Resolve(input, rules) ==
    LET r == selectRule(input, rules)
    IN  [kind |-> r.kind,
         rule |-> IF r.kind = "rule" THEN rules[r.idx] ELSE EmptyObject]

----------------------------------------------------------------------------
(* The source: what sheets.spreadsheets.values.get answers *)

C(w) == <<w>>
Blank == <<>>

HeaderRow == <<C("rule_id"), C("usage"), C("audience"), C("density"), C("tone"),
               C("font_style"), C("weight"), C("spacing"), C("priority"), C("note")>>

RowR1 == <<C("R1"), C("print"), C("teen"), C("high"), C("friendly"),
           C("Sarabun"), C("4"), C("normal"), <<"1", "0">>, C("n")>>
RowR2 == <<C("R2"), <<" ", "print">>, C("teen"), <<"high", " ">>, C("friendly"),
           C("Kanit"), C("7"), C("wide"), <<"5", "0">>>>
RowR3 == <<C("R3"), C("web"), C("adult"), C("high"), C("friendly"),
           C("Prompt"), C("3"), C("tight"), <<"5">>>>
RowSys == <<C("SYS"), Blank, Blank, Blank, Blank,
            C("Fallback"), C("4"), C("normal"), <<"1", "0", "0">>>>
RowNoId == <<<<" ">>, C("print"), C("teen"), C("high"), C("friendly"),
             C("Lost"), C("4"), C("normal"), <<"9", "0">>>>

SheetA == <<HeaderRow, RowR1, RowR2, RowSys>>
SheetB == <<HeaderRow, RowNoId, <<>>, RowR3>>
SheetHeaderOnly == <<HeaderRow>>
SheetEmpty == <<>>

Sheets == {SheetA, SheetB, SheetHeaderOnly, SheetEmpty}

Answered(rows) == [kind |-> "ok", rows |-> rows]
SourceUnavailable == [kind |-> "unavailable", rows |-> <<>>]
MalformedSource == [kind |-> "malformed", rows |-> <<>>]

Responses == {Answered(rows) : rows \in Sheets} \cup {SourceUnavailable, MalformedSource}

(* loadRules resolves exactly when the get resolves with a grid of rows *)
Resolves(resp) == resp.kind = "ok"

----------------------------------------------------------------------------
(* Queries *)

UsageValues == {Str("print"), Str("web"), Undefined}
AudienceValues == {Str("teen"), Str("adult")}
DensityValues == {Str("high"), SV(<<>>)}
ToneValues == {Str("friendly"), Undefined}

Queries == {Input(u, a, d, t) : u \in UsageValues, a \in AudienceValues,
                                d \in DensityValues, t \in ToneValues}
Inputs == Queries \cup {NoInput}

(* the requests the server is driven with *)
Requests == {Input(Str("print"), Str("teen"), Str("high"), Str("friendly")),
             Input(Str("web"), Str("adult"), Str("high"), Str("friendly")),
             Input(Undefined, Str("teen"), Str("high"), Str("friendly")),
             Input(Str("print"), Str("teen"), SV(<<>>), Str("friendly")),
             NoInput}

----------------------------------------------------------------------------
(* server.js *)

NoLoad == [done |-> FALSE, ok |-> FALSE, rows |-> <<>>, snapshot |-> <<>>]
Loaded(rows, snapshot) == [done |-> TRUE, ok |-> TRUE, rows |-> rows, snapshot |-> snapshot]
FailedLoad == [done |-> TRUE, ok |-> FALSE, rows |-> <<>>, snapshot |-> <<>>]

NoReply == [status |-> 0, body |-> EmptyObject]

(* variant: the status code is never set *)
ReplyWithoutStatus(status, body) == [status |-> 200, body |-> body]

Reply(status, body) == [status |-> status, body |-> body]

CurrentStore == Store(exported, aliased, detached)

SetStore(st) ==
    /\ exported' = st.exported
    /\ aliased' = st.aliased
    /\ detached' = st.detached

(* variant: the rejection of the initial load is swallowed *)
AfterInitialLoadSwallowed(resolved) == "binding"

(* where start() goes once the awaited initial load settles *)
AfterInitialLoad(resolved) == IF resolved THEN "binding" ELSE "exited"

(* whether a tick of the interval timer starts a loadRules call *)
TickStartsLoad(pending) == TRUE

(* variant: the error is reported whenever a scheduled load settles *)
ErrorReportsAlways(resolved) == 1

(* console.error calls of the interval callback's .catch *)
ErrorReports(resolved) == IF resolved THEN 0 ELSE 1

(* console.log calls of the interval callback's .then *)
ReloadReports(resolved) == IF resolved THEN 1 ELSE 0

NoneSettled == [id \in {} |-> FALSE]
Settle(id, resolved) ==
    [i \in (DOMAIN settled) \cup {id} |-> IF i = id THEN resolved ELSE settled[i]]

NoScheduledLoad == [id |-> 0, rows |-> <<>>]

Init ==
    /\ exported = <<>>
    /\ aliased = TRUE
    /\ detached = <<>>
    /\ pc = "init"
    /\ inflight = {}
    /\ nextId = 0
    /\ lastInput = NoInput
    /\ lastResult = Null
    /\ lastReply = NoReply
    /\ lastLoad = NoLoad
    /\ initialLoad = NoLoad
    /\ errorLog = 0
    /\ reloadLog = 0
    /\ lastBody = NoInput
    /\ settled = NoneSettled
    /\ latestOk = NoScheduledLoad

(* start(): calls loadRules and awaits it *)
Start ==
    /\ pc = "init"
    /\ pc' = "loading"
    /\ UNCHANGED <<exported, aliased, detached, inflight, nextId, lastInput,
                   lastResult, lastReply, lastLoad, initialLoad, errorLog,
                   reloadLog, lastBody, settled, latestOk>>

(* the initial load resolves: app.listen is called *)
StartupLoaded(resp) ==
    /\ pc = "loading"
    /\ Resolves(resp)
    /\ LET st == StoreAfterLoad(CurrentStore, resp.rows)
       IN  /\ SetStore(st)
           /\ lastLoad' = Loaded(resp.rows, LoadedArray(st))
           /\ initialLoad' = Loaded(resp.rows, LoadedArray(st))
    /\ pc' = AfterInitialLoad(TRUE)
    /\ UNCHANGED <<inflight, nextId, lastInput, lastResult, lastReply, errorLog,
                   reloadLog, lastBody, settled, latestOk>>

(* the initial load rejects: console.error and process.exit(1) *)
StartupFailed(resp) ==
    /\ pc = "loading"
    /\ ~Resolves(resp)
    /\ SetStore(StoreAfterFailure(CurrentStore))
    /\ initialLoad' = FailedLoad
    /\ pc' = AfterInitialLoad(FALSE)
    /\ UNCHANGED <<inflight, nextId, lastInput, lastResult, lastReply, lastLoad,
                   errorLog, reloadLog, lastBody, settled, latestOk>>

(* the listen callback: the server accepts requests, setInterval is armed *)
Listening ==
    /\ pc = "binding"
    /\ pc' = "listening"
    /\ UNCHANGED <<exported, aliased, detached, inflight, nextId, lastInput,
                   lastResult, lastReply, lastLoad, initialLoad, errorLog,
                   reloadLog, lastBody, settled, latestOk>>

(* the interval callback: loadRules() is called, its promise not awaited *)
Tick ==
    /\ pc = "listening"
    /\ nextId < MaxLoads
    /\ TickStartsLoad(inflight)
    /\ nextId' = nextId + 1
    /\ inflight' = inflight \cup {nextId + 1}
    /\ UNCHANGED <<exported, aliased, detached, pc, lastInput, lastResult,
                   lastReply, lastLoad, initialLoad, errorLog, reloadLog,
                   lastBody, settled, latestOk>>

(* a scheduled loadRules resolves: .then logs the reload *)
ReloadDone(id, resp) ==
    /\ pc = "listening"
    /\ id \in inflight
    /\ Resolves(resp)
    /\ LET st == StoreAfterLoad(CurrentStore, resp.rows)
       IN  /\ SetStore(st)
           /\ lastLoad' = Loaded(resp.rows, LoadedArray(st))
    /\ inflight' = inflight \ {id}
    /\ errorLog' = errorLog + ErrorReports(TRUE)
    /\ reloadLog' = reloadLog + ReloadReports(TRUE)
    /\ settled' = Settle(id, TRUE)
    /\ latestOk' = IF id > latestOk.id THEN [id |-> id, rows |-> resp.rows] ELSE latestOk
    /\ UNCHANGED <<pc, nextId, lastInput, lastResult, lastReply, initialLoad,
                   lastBody>>

(* a scheduled loadRules rejects: .catch reports it with console.error *)
ReloadFailed(id, resp) ==
    /\ pc = "listening"
    /\ id \in inflight
    /\ ~Resolves(resp)
    /\ SetStore(StoreAfterFailure(CurrentStore))
    /\ inflight' = inflight \ {id}
    /\ errorLog' = errorLog + ErrorReports(FALSE)
    /\ reloadLog' = reloadLog + ReloadReports(FALSE)
    /\ settled' = Settle(id, FALSE)
    /\ UNCHANGED <<pc, nextId, lastInput, lastResult, lastReply, lastLoad,
                   initialLoad, lastBody, latestOk>>

(* POST /tti/decide-font with body `body` (NoInput: no body) *)
DecideFont(body) ==
    /\ pc = "listening"
    /\ IF ~Truthy(body.usage) \/ ~Truthy(body.audience) \/ ~Truthy(body.density)
          \/ ~Truthy(body.tone)
       THEN /\ lastReply' = Reply(400, EmptyObject)
            /\ UNCHANGED <<lastInput, lastResult, exported>>
       ELSE LET input == Input(body.usage, body.audience, body.density, body.tone)
                rule == selectRule(input, exported)
            IN  /\ lastInput' = input
                /\ lastResult' = rule
                /\ exported' = RulesAfterSelect(input, exported)
                /\ lastReply' =
                     IF rule.kind # "rule" THEN Reply(404, EmptyObject)
                     ELSE Reply(200,
                            [k \in {"rule_id", "font_style", "weight", "spacing"} |->
                                Get(exported[rule.idx], <<k>>)])
    /\ lastBody' = body
    /\ UNCHANGED <<aliased, detached, pc, inflight, nextId, lastLoad,
                   initialLoad, errorLog, reloadLog, settled, latestOk>>

(* selectRule called through the library exports of index.js *)
CallSelectRule(input) ==
    /\ pc # "exited"
    /\ lastInput' = input
    /\ lastResult' = selectRule(input, exported)
    /\ exported' = RulesAfterSelect(input, exported)
    /\ UNCHANGED <<aliased, detached, pc, inflight, nextId, lastReply,
                   lastLoad, initialLoad, errorLog, reloadLog, lastBody,
                   settled, latestOk>>

Next ==
    \/ Start
    \/ \E resp \in Responses : StartupLoaded(resp)
    \/ \E resp \in Responses : StartupFailed(resp)
    \/ Listening
    \/ Tick
    \/ \E id \in inflight, resp \in Responses : ReloadDone(id, resp)
    \/ \E id \in inflight, resp \in Responses : ReloadFailed(id, resp)
    \/ \E body \in Requests : DecideFont(body)
    \/ \E input \in Requests : CallSelectRule(input)

Spec == Init /\ [][Next]_vars

----------------------------------------------------------------------------
(* The rule engine on its own: the server is listening after an initial   *)
(* load of a sheet drawn from MatchSheets, and selectRule is called.       *)

HeaderNoPriority == <<C("id"), C("usage"), C("audience"), C("density"), C("tone"),
                      C("font_style")>>

PriorityCells == {Blank, <<"5">>, <<"1", "0", "0">>}

MatchRows == {<<C("R"), C(u), C("teen"), C("high"), C("friendly"), C("F"),
                C("4"), C("normal"), p>> : u \in {"print", "web"}, p \in PriorityCells}

RECURSIVE SeqsUpTo(_, _)
SeqsUpTo(S, n) ==
    IF n = 0 THEN {<<>>}
    ELSE LET shorter == SeqsUpTo(S, n - 1)
         IN  shorter \cup {Append(q, x) : q \in shorter, x \in S}

MatchRowsNoPriority == {<<C("R"), C(u), C("teen"), C("high"), C("friendly"), C("F")>> :
                            u \in {"print", "web"}}

MatchSheets ==
    {<<HeaderRow>> \o rows : rows \in SeqsUpTo(MatchRows, MaxRules)}
    \cup {<<HeaderNoPriority>> \o rows : rows \in SeqsUpTo(MatchRowsNoPriority, MaxRules)}

InitMatch ==
    /\ \E rows \in MatchSheets :
          LET st == StoreAfterLoad(Store(<<>>, TRUE, <<>>), rows)
          IN  /\ exported = st.exported
              /\ aliased = st.aliased
              /\ detached = st.detached
              /\ lastLoad = Loaded(rows, LoadedArray(st))
              /\ initialLoad = Loaded(rows, LoadedArray(st))
    /\ pc = "listening"
    /\ inflight = {}
    /\ nextId = 0
    /\ lastInput = NoInput
    /\ lastResult = Null
    /\ lastReply = NoReply
    /\ errorLog = 0
    /\ reloadLog = 0
    /\ lastBody = NoInput
    /\ settled = NoneSettled
    /\ latestOk = NoScheduledLoad

NextMatch == \E input \in Inputs : CallSelectRule(input)

SpecMatch == InitMatch /\ [][NextMatch]_vars

----------------------------------------------------------------------------
(* The parser on its own: start() awaits the initial load and the source   *)
(* answers a sheet drawn from ParseSheets.                                 *)

ParseHeaders ==
    {<<C("rule_id"), C("usage"), C("priority")>>,
     <<<<" ", "id", " ">>, <<"usage", " ">>, <<" ", "priority">>>>,
     <<C("id"), C("usage"), C("rule_id")>>,
     <<C("rule_id"), Blank, C("usage")>>,
     <<C("rule_id"), C("usage")>>}

ParseDataRows ==
    {<<>>,
     <<C("R1"), C("print"), <<"5">>>>,
     <<<<" ", "R2", " ">>, <<" ", "web", " ">>, <<"1", ".", "5">>>>,
     <<C("R3")>>,
     <<<<" ">>, C("print"), <<"1", "0", "0">>>>,
     <<Blank, C("web"), C("x")>>,
     <<C("R6"), C("print"), Blank>>,
     <<C("R7"), C("web"), C("x")>>,
     <<C("R8"), C("print"), C("Infinity")>>,
     <<C("R9"), C("print"), <<"-", "3">>>>}

ParseSheets == {<<h>> \o rows : h \in ParseHeaders, rows \in SeqsUpTo(ParseDataRows, MaxRows)}

InitParse ==
    /\ exported = <<>>
    /\ aliased = TRUE
    /\ detached = <<>>
    /\ pc = "loading"
    /\ inflight = {}
    /\ nextId = 0
    /\ lastInput = NoInput
    /\ lastResult = Null
    /\ lastReply = NoReply
    /\ lastLoad = NoLoad
    /\ initialLoad = NoLoad
    /\ errorLog = 0
    /\ reloadLog = 0
    /\ lastBody = NoInput
    /\ settled = NoneSettled
    /\ latestOk = NoScheduledLoad

NextParse == \E rows \in ParseSheets : StartupLoaded(Answered(rows))

SpecParse == InitParse /\ [][NextParse]_vars

----------------------------------------------------------------------------
(* Properties *)

(* the snapshot a successful load of `rows` stands for *)
SnapshotOf(rows) == IF rows = <<>> THEN <<>> ELSE ParseRows(rows)

(* indices of the rules equal to the query on all four fields *)
Matching(input, rules) ==
    {i \in 1..Len(rules) :
        /\ Get(rules[i], UsageKey) = input.usage
        /\ Get(rules[i], AudienceKey) = input.audience
        /\ Get(rules[i], DensityKey) = input.density
        /\ Get(rules[i], ToneKey) = input.tone}

(* a rule's priority, 0 when it has none *)
PriorityOf(rule) ==
    LET p == Get(rule, PriorityKey) IN IF p.t = "num" THEN p.n ELSE 0

(* indices of the rules of priority 100 *)
SystemRules(rules) ==
    {i \in 1..Len(rules) : PriorityOf(rules[i]) = Tenths(FallbackPriority)}

Least(S) == CHOOSE i \in S : \A j \in S : i <= j

MissingField(input) ==
    Undefined \in {input.usage, input.audience, input.density, input.tone}

(* C1: once a load has completed successfully (a response of zero rows    *)
(* included), every query is resolved against exactly the rules parsed     *)
(* from that load's rows.                                                  *)
C1_LatestLoadIsServed ==
    lastLoad.done =>
        \A q \in Queries : Resolve(q, exported) = Resolve(q, SnapshotOf(lastLoad.rows))

(* C2: a failed scheduled refresh leaves every query's result as it was   *)
(* before the refresh failed.                                              *)
C2_FailedRefreshKeepsResults ==
    [][errorLog' # errorLog =>
          \A q \in Queries : Resolve(q, exported') = Resolve(q, exported)]_vars

C2_Witness == errorLog > 0 /\ exported # <<>> /\ inflight = {}

(* C3: the array selectRule reads changes only in the step in which a     *)
(* load completes, and then it holds all the rules parsed from that load's *)
(* rows; while loads are only started or still in flight it is unchanged.  *)
C3_PublishIsAtomic ==
    [][/\ exported' # exported =>
            /\ pc = "loading" \/ inflight' # inflight
            /\ lastLoad'.done
            /\ exported' = SnapshotOf(lastLoad'.rows)
       /\ (inflight \subseteq inflight' /\ pc # "loading") => exported' = exported]_vars

C3_Witness ==
    /\ inflight # {}
    /\ lastLoad.done
    /\ exported # <<>>
    /\ exported = SnapshotOf(lastLoad.rows)
    /\ exported # initialLoad.snapshot

(* C4: at most one refresh cycle is in flight at any time.                *)
C4_OneRefreshInFlight == Cardinality(inflight) <= 1

(* C5: when some rule equals the query on all four fields, selectRule     *)
(* returns a matching rule of the highest priority among the matching      *)
(* rules, the earliest in snapshot order among those of that priority.     *)
C5_BestMatchWins ==
    LET m == Matching(lastInput, exported)
    IN  (lastInput.present /\ m # {}) =>
            /\ lastResult.kind = "rule"
            /\ lastResult.idx \in m
            /\ \A j \in m :
                  /\ PriorityOf(exported[lastResult.idx]) >= PriorityOf(exported[j])
                  /\ PriorityOf(exported[j]) = PriorityOf(exported[lastResult.idx])
                        => lastResult.idx <= j

C5_Witness ==
    LET m == Matching(lastInput, exported)
    IN  /\ lastInput.present
        /\ lastResult.kind = "rule"
        /\ \E i, j, k \in m :
              /\ i < j /\ j < k
              /\ PriorityOf(exported[i]) < PriorityOf(exported[j])
              /\ PriorityOf(exported[k]) = PriorityOf(exported[j])
              /\ lastResult.idx = j

(* C6: when no rule matches the query and some rule has priority 100,     *)
(* selectRule returns the first rule of priority 100 in snapshot order.    *)
C6_FirstSystemRuleIsFallback ==
    (lastInput.present /\ Matching(lastInput, exported) = {}
        /\ SystemRules(exported) # {})
    => lastResult = Selected(Least(SystemRules(exported)))

C6_Witness ==
    /\ lastInput.present
    /\ Matching(lastInput, exported) = {}
    /\ Cardinality(SystemRules(exported)) >= 2
    /\ 1 \notin SystemRules(exported)
    /\ lastResult = Selected(Least(SystemRules(exported)))
    /\ Get(exported[lastResult.idx], UsageKey) # lastInput.usage

(* C7: when no rule matches the query and no rule has priority 100,       *)
(* selectRule returns null and does not throw.                             *)
C7_NoMatchIsNull ==
    (lastInput.present /\ Matching(lastInput, exported) = {}
        /\ SystemRules(exported) = {})
    => lastResult = Null

C7_Witness ==
    /\ lastInput.present
    /\ ~MissingField(lastInput)
    /\ exported # <<>>
    /\ Matching(lastInput, exported) = {}
    /\ SystemRules(exported) = {}
    /\ lastResult = Null

(* C8: the server listens, the timer runs and requests are answered only  *)
(* after the initial load has resolved; when it rejects the process exits. *)
C8_ServesOnlyAfterInitialLoad ==
    /\ pc \in {"binding", "listening"} => (initialLoad.done /\ initialLoad.ok)
    /\ (initialLoad.done /\ ~initialLoad.ok) => pc = "exited"
    /\ pc \in {"init", "loading", "binding", "exited"} =>
          (nextId = 0 /\ inflight = {} /\ lastReply = NoReply)

C8_Witness == pc = "exited" /\ initialLoad.done /\ ~initialLoad.ok

(* C9: whenever the server is listening, the snapshot published by the    *)
(* initial load contains at least one rule.                                *)
C9_NeverServesEmptyRuleSet ==
    pc = "listening" => Len(initialLoad.snapshot) >= 1

(* C10: selectRule called with a query lacking one of the four fields     *)
(* throws; it returns neither a rule nor null.                             *)
C10_MissingFieldThrows ==
    (lastInput.present /\ MissingField(lastInput)) => lastResult = Threw

(* the key of column j: the trimmed header, rule_id for the first column *)
KeyOf(headerRow, j) == IF j = 1 THEN RuleIdKey ELSE Trim(headerRow[j])

KeysOf(headerRow) == {KeyOf(headerRow, j) : j \in 1..Len(headerRow)} \ {<<>>}

HasColumn(headerRow, key) == key \in KeysOf(headerRow)

(* the trimmed cell of `row` under the column keyed `key` (the last such   *)
(* column when several carry the key), "" when the row has no such cell    *)
CellUnder(headerRow, row, key) ==
    LET cols == {j \in 1..Len(headerRow) : KeyOf(headerRow, j) = key}
        col == CHOOSE j \in cols : \A k \in cols : k <= j
    IN  IF col <= Len(row) THEN Trim(row[col]) ELSE <<>>

(* the data rows that are not empty and have a non-empty rule_id, in order *)
RetainedRows(rows) ==
    LET Retained(row) ==
            /\ Len(row) > 0
            /\ HasColumn(rows[1], RuleIdKey)
            /\ CellUnder(rows[1], row, RuleIdKey) # <<>>
    IN  SelectSeq(Tail(rows), Retained)

(* C11: a successful load yields exactly the rules of the non-empty rows  *)
(* whose rule_id is non-empty, in source order, each with one field per    *)
(* named column holding the trimmed cell under that column ("" for a       *)
(* missing trailing cell).                                                 *)
C11_LoadKeepsRowsWithRuleId ==
    (lastLoad.done /\ lastLoad.rows # <<>>) =>
        LET rows == lastLoad.rows
            kept == RetainedRows(rows)
            snapshot == lastLoad.snapshot
        IN  /\ Len(snapshot) = Len(kept)
            /\ \A i \in 1..Len(kept) :
                  /\ DOMAIN snapshot[i] = KeysOf(rows[1])
                  /\ \A key \in KeysOf(rows[1]) \ {PriorityKey} :
                        snapshot[i][key] = SV(CellUnder(rows[1], kept[i], key))

C11_Witness ==
    /\ lastLoad.done
    /\ Len(lastLoad.rows) = 3
    /\ Len(lastLoad.snapshot) = 1
    /\ Len(lastLoad.rows[1]) >= 2
    /\ lastLoad.rows[1][2] # Trim(lastLoad.rows[1][2])
    /\ Len(lastLoad.rows[2]) > 0
    /\ Trim(lastLoad.rows[2][1]) = <<>>
    /\ Len(lastLoad.rows[3]) > 0
    /\ lastLoad.rows[3][1] # Trim(lastLoad.rows[3][1])
    /\ lastLoad.snapshot[1][RuleIdKey] = SV(Trim(lastLoad.rows[3][1]))

(* C14: the rule_id of every retained rule is the trimmed first cell of   *)
(* its row, and a non-empty row is discarded exactly when its trimmed      *)
(* first cell is empty, whatever the labels of the headers.                *)
C14_FirstColumnIsTheId ==
    (lastLoad.done /\ lastLoad.rows # <<>>) =>
        LET HasFirstCell(row) == Len(row) > 0 /\ Trim(row[1]) # <<>>
            kept == SelectSeq(Tail(lastLoad.rows), HasFirstCell)
            snapshot == lastLoad.snapshot
        IN  /\ Len(snapshot) = Len(kept)
            /\ \A i \in 1..Len(kept) :
                  Get(snapshot[i], RuleIdKey) = SV(Trim(kept[i][1]))

(* the priority cell of a row is missing, empty or no finite number *)
NoFinitePriority(headerRow, row) ==
    StringToNumber(CellUnder(headerRow, row, PriorityKey)).t # "num"
    \/ CellUnder(headerRow, row, PriorityKey) = <<>>

(* C15: every rule the parser produces has an integer priority, which is  *)
(* 0 when the cell is unparsable or absent (missing cell, or no priority   *)
(* column).                                                                *)
C15_PriorityIsAnInteger ==
    (lastLoad.done /\ lastLoad.rows # <<>>) =>
        LET rows == lastLoad.rows
            kept == RetainedRows(rows)
            snapshot == lastLoad.snapshot
        IN  \A i \in 1..Len(snapshot) :
               LET p == Get(snapshot[i], PriorityKey)
               IN  /\ p.t = "num"
                   /\ p.n % Tenths(1) = 0
                   /\ (~HasColumn(rows[1], PriorityKey)
                       \/ NoFinitePriority(rows[1], kept[i])) => p.n = 0

(* C15 as amended: with a priority column every rule has a finite numeric *)
(* priority, not necessarily an integer: the number the trimmed cell       *)
(* denotes, and 0 when the cell is missing, empty, unparsable or not       *)
(* finite; without a priority column the rule has no priority field and    *)
(* the rule engine ranks it as 0.                                          *)
C15_PriorityIsAFiniteNumber ==
    (lastLoad.done /\ lastLoad.rows # <<>>) =>
        LET rows == lastLoad.rows
            kept == RetainedRows(rows)
            snapshot == lastLoad.snapshot
        IN  \A i \in 1..Len(snapshot) :
               IF HasColumn(rows[1], PriorityKey)
               THEN LET p == Get(snapshot[i], PriorityKey)
                    IN  /\ p.t = "num"
                        /\ IF NoFinitePriority(rows[1], kept[i])
                           THEN p.n = 0
                           ELSE p = StringToNumber(CellUnder(rows[1], kept[i], PriorityKey))
               ELSE /\ PriorityKey \notin DOMAIN snapshot[i]
                    /\ SortKey(snapshot[i]) = 0

C15_Witness ==
    /\ lastLoad.done
    /\ Len(lastLoad.snapshot) = 2
    /\ HasColumn(lastLoad.rows[1], PriorityKey)
    /\ Get(lastLoad.snapshot[1], PriorityKey).n % Tenths(1) # 0
    /\ CellUnder(lastLoad.rows[1], lastLoad.rows[3], PriorityKey) = <<"Infinity">>
    /\ Get(lastLoad.snapshot[2], PriorityKey) = NV(0)

(* C13: every rule of the array selectRule reads has a non-empty rule_id, *)
(* in every reachable state.                                               *)
C13_EveryRuleHasAnId ==
    \A i \in 1..Len(exported) :
        /\ Get(exported[i], RuleIdKey).t = "str"
        /\ Get(exported[i], RuleIdKey).s # <<>>

C13_Witness ==
    /\ lastLoad.done
    /\ nextId > 0
    /\ exported # <<>>
    /\ exported = lastLoad.snapshot
    /\ \E k \in 2..Len(lastLoad.rows) :
          Len(lastLoad.rows[k]) > 0 /\ Trim(lastLoad.rows[k][1]) = <<>>

(* a request field that is missing or the empty string *)
MissingOrEmpty(v) == v = Undefined \/ v = SV(<<>>)

(* the status C12 gives for `body` on the snapshot `rules` *)
ExpectedStatus(body, rules) ==
    IF \E v \in {body.usage, body.audience, body.density, body.tone} : MissingOrEmpty(v)
    THEN 400
    ELSE IF Matching(body, rules) = {} /\ SystemRules(rules) = {} THEN 404 ELSE 200

ReplyFields == {"rule_id", "font_style", "weight", "spacing"}

(* C12: POST /tti/decide-font answers 400 exactly when one of the four    *)
(* fields is missing or empty, and then the rule engine is not consulted;  *)
(* 404 exactly when all four are present, no rule matches and the current  *)
(* snapshot has no priority-100 rule; 200 otherwise, with rule_id,         *)
(* font_style, weight and spacing of the rule selectRule selected.         *)
C12_StatusCodes ==
    [][(lastBody' # lastBody \/ lastReply' # lastReply) =>
          LET body == lastBody'
              status == ExpectedStatus(body, exported)
              selected == Resolve(Input(body.usage, body.audience, body.density,
                                        body.tone), exported)
          IN  /\ lastReply'.status = status
              /\ status = 400 => (lastInput' = lastInput /\ lastResult' = lastResult)
              /\ status = 200 =>
                    /\ selected.kind = "rule"
                    /\ \A k \in ReplyFields :
                          lastReply'.body[k] = Get(selected.rule, <<k>>)]_vars

C12_Witness ==
    /\ lastReply.status = 200
    /\ lastBody.present
    /\ Matching(lastBody, exported) = {}
    /\ SystemRules(exported) # {}
    /\ lastReply.body["rule_id"] = Get(exported[Least(SystemRules(exported))], RuleIdKey)
    /\ lastReply.body["font_style"] = Str("Fallback")

(* C16: a selectRule call leaves the rules array as it was: the same      *)
(* rules in the same order, whatever the query and the outcome.            *)
C16_SelectRuleKeepsTheArray ==
    [][(lastInput' # lastInput \/ lastResult' # lastResult) => exported' = exported]_vars

C16_Witness ==
    /\ lastInput.present
    /\ lastResult.kind = "rule"
    /\ lastResult.idx > 1
    /\ 1 \in Matching(lastInput, exported)
    /\ exported = lastLoad.snapshot
    /\ \E i \in 1..(Len(exported) - 1) :
          PriorityOf(exported[i]) < PriorityOf(exported[i + 1])

(* C17: every failed scheduled refresh is reported to the error sink      *)
(* exactly once and not as a reload; a successful one is reported as a     *)
(* reload and gives no error report.                                       *)
C17_FailuresReportedOnce ==
    /\ errorLog = Cardinality({id \in DOMAIN settled : ~settled[id]})
    /\ reloadLog = Cardinality({id \in DOMAIN settled : settled[id]})

C17_Witness == errorLog >= 1 /\ reloadLog >= 1 /\ inflight = {}

(* C18: when refresh A started before refresh B and both have resolved,   *)
(* queries are resolved against the rules parsed from B's response         *)
(* (B being the resolved refresh that started last).                       *)
C18_NoRegression ==
    (\E a \in DOMAIN settled : settled[a] /\ a < latestOk.id) =>
        \A q \in Queries :
            Resolve(q, exported) = Resolve(q, SnapshotOf(latestOk.rows))

(* C19: once a scheduled refresh has failed, a later scheduled refresh    *)
(* that the source answers makes the rules of that answer the snapshot     *)
(* selectRule reads.                                                       *)
C19_RecoversAfterFailure ==
    [][(errorLog >= 1 /\ reloadLog' = reloadLog + 1) =>
          \A q \in Queries :
              Resolve(q, exported') = Resolve(q, SnapshotOf(lastLoad'.rows))]_vars

====
